---- MODULE Spec2Model ----
(***************************************************************************)
(* A model of allisson/sqlquery: the options records (options.go), the     *)
(* filter compilers parseSelectFilter / parseUpdateFilter /                *)
(* parseDeleteFilter and the statement assemblers (query.go), over the     *)
(* part of go-sqlbuilder they call (argument registry, condition helpers,  *)
(* Build).                                                                 *)
(*                                                                         *)
(* Strings on which the code splits are sequences of atoms: a filter key   *)
(* is a sequence such as <<"id", ".", "in">>, a comma separated value is   *)
(* <<"1", ",", "2">>.  SQL text is a sequence of words; joining the words  *)
(* with blanks gives the text the library returns.                         *)
(***************************************************************************)
EXTENDS Integers, Sequences, FiniteSets, TLC

VARIABLES
    heap,       \* the Go maps allocated so far: map id -> (key -> value)
    handles,    \* the live options records; Filters/Assignments are map ids
    out,        \* the last compiled statement, or NoOut
    bld,        \* filter harness: the builder a parse*Filter call acts on
    last,       \* filter harness: the last parse*Filter call and its builder
    running     \* the With* call each goroutine is in the middle of

vars == <<heap, handles, out, bld, last, running>>

-----------------------------------------------------------------------------
(* Flavors: options.go *)

MySQLFlavor == 1
PostgreSQLFlavor == 2
SQLiteFlavor == 3

Flavors == {MySQLFlavor, PostgreSQLFlavor, SQLiteFlavor}

-----------------------------------------------------------------------------
(* Values of type interface{} *)

Nil == [t |-> "nil", b |-> FALSE, i |-> 0, s |-> <<>>]
BoolV(x) == [t |-> "bool", b |-> x, i |-> 0, s |-> <<>>]
IntV(x) == [t |-> "int", b |-> FALSE, i |-> x, s |-> <<>>]
StrV(x) == [t |-> "string", b |-> FALSE, i |-> 0, s |-> x]

-----------------------------------------------------------------------------
(* strings.Contains, strings.Split and the text of a sequence of atoms *)

RECURSIVE Text(_)
Text(atoms) ==
    IF atoms = <<>> THEN "" ELSE Head(atoms) \o Text(Tail(atoms))

Contains(s, sep) == \E i \in 1..Len(s) : s[i] = sep

RECURSIVE SplitFrom(_, _, _)
SplitFrom(s, sep, cur) ==
    IF s = <<>> THEN <<cur>>
    ELSE IF Head(s) = sep THEN <<cur>> \o SplitFrom(Tail(s), sep, <<>>)
    ELSE SplitFrom(Tail(s), sep, Append(cur, Head(s)))

\* A variant that leaves the empty segments out.
SplitDroppingEmpty(s, sep) ==
    SelectSeq(SplitFrom(s, sep, <<>>), LAMBDA segment : segment # <<>>)

Split(s, sep) == SplitFrom(s, sep, <<>>)

-----------------------------------------------------------------------------
(* go-sqlbuilder: expressions, the argument registry and the condition     *)
(* helpers.  An expression is a sequence of literal words and of           *)
(* references to registered arguments.                                     *)

Lit(w) == [t |-> "lit", s |-> w, n |-> 0]
Var(k) == [t |-> "var", s |-> "", n |-> k]

\* A variant that writes the value into the text.
CompareInlined(args, field, op, value) ==
    [args |-> args,
     expr |-> <<Lit(field), Lit(op),
                Lit(CASE value.t = "string" -> "'" \o Text(value.s) \o "'"
                      [] value.t = "int" -> ToString(value.i)
                      [] value.t = "bool" -> ToString(value.b)
                      [] OTHER -> "NULL")>>]

Compare(args, field, op, value) ==
    [args |-> Append(args, value),
     expr |-> <<Lit(field), Lit(op), Var(Len(args) + 1)>>]

Equal(args, field, value) == Compare(args, field, "=", value)
NotEqual(args, field, value) == Compare(args, field, "<>", value)
GreaterThan(args, field, value) == Compare(args, field, ">", value)
GreaterEqualThan(args, field, value) == Compare(args, field, ">=", value)
LessThan(args, field, value) == Compare(args, field, "<", value)
LessEqualThan(args, field, value) == Compare(args, field, "<=", value)
Like(args, field, value) == Compare(args, field, "LIKE", value)

RECURSIVE VarList(_, _)
VarList(from, n) ==
    IF n = 0 THEN <<>>
    ELSE IF n = 1 THEN <<Var(from)>>
    ELSE <<Var(from), Lit(",")>> \o VarList(from + 1, n - 1)

InList(args, field, words, values) ==
    [args |-> args \o values,
     expr |-> <<Lit(field)>> \o words \o <<Lit("(")>>
              \o VarList(Len(args) + 1, Len(values)) \o <<Lit(")")>>]

In(args, field, values) == InList(args, field, <<Lit("IN")>>, values)
NotIn(args, field, values) ==
    InList(args, field, <<Lit("NOT"), Lit("IN")>>, values)

IsNull(args, field) ==
    [args |-> args, expr |-> <<Lit(field), Lit("IS"), Lit("NULL")>>]
IsNotNull(args, field) ==
    [args |-> args,
     expr |-> <<Lit(field), Lit("IS"), Lit("NOT"), Lit("NULL")>>]

Assign(args, field, value) == Compare(args, field, "=", value)

-----------------------------------------------------------------------------
(* go-sqlbuilder: the three builders, as one record type *)

NewBuilder(kind) ==
    [kind |-> kind, flavor |-> MySQLFlavor, table |-> "", fields |-> <<>>,
     cols |-> <<>>, values |-> <<>>,
     sets |-> <<>>, wheres |-> <<>>, orderBy |-> <<>>,
     limitVar |-> 0, offsetVar |-> 0,
     forUpdate |-> FALSE, forSQL |-> <<>>, args |-> <<>>]

NewSelectBuilder == NewBuilder("select")
NewUpdateBuilder == NewBuilder("update")
NewDeleteBuilder == NewBuilder("delete")
NewInsertBuilder == NewBuilder("insert")

\* A builder whose statement was abandoned by a run-time panic.
Panic(b) == [b EXCEPT !.kind = "panic"]

SetFlavor(b, flavor) == [b EXCEPT !.flavor = flavor]
Select(b, fields) == [b EXCEPT !.fields = fields]
From(b, table) == [b EXCEPT !.table = table]
Update(b, table) == [b EXCEPT !.table = table]
DeleteFrom(b, table) == [b EXCEPT !.table = table]
InsertInto(b, table) == [b EXCEPT !.table = table]
Cols(b, cols) == [b EXCEPT !.cols = cols]
Values(b, values) ==
    [b EXCEPT !.args = @ \o values,
              !.values = [i \in 1..Len(values) |-> <<Var(Len(b.args) + i)>>]]

Where(b, r) == [b EXCEPT !.args = r.args, !.wheres = Append(@, r.expr)]
Set(b, assignments) == [b EXCEPT !.sets = assignments]
WithArgs(b, args) == [b EXCEPT !.args = args]

Limit(b, limit) ==
    [b EXCEPT !.args = Append(@, IntV(limit)), !.limitVar = Len(b.args) + 1]
Offset(b, offset) ==
    [b EXCEPT !.args = Append(@, IntV(offset)), !.offsetVar = Len(b.args) + 1]
OrderBy(b, col) == [b EXCEPT !.orderBy = <<col>>]
ForUpdate(b) == [b EXCEPT !.forUpdate = TRUE]
SQL(b, text) == [b EXCEPT !.forSQL = Append(@, text)]

-----------------------------------------------------------------------------
(* go-sqlbuilder: Build.  The clauses are laid out in the statement's fixed *)
(* order, then the text is compiled: every reference to a registered        *)
(* argument is replaced by the flavor's placeholder and the argument is     *)
(* appended to the argument list, in the order of the references.           *)

RECURSIVE Joined(_, _)
Joined(exprs, sep) ==
    IF exprs = <<>> THEN <<>>
    ELSE IF Len(exprs) = 1 THEN Head(exprs)
    ELSE Head(exprs) \o <<Lit(sep)>> \o Joined(Tail(exprs), sep)

Words(ws) == [i \in 1..Len(ws) |-> <<Lit(ws[i])>>]

\* A variant that writes the clause word whether or not there are conditions.
WhereClauseAlways(b) == <<Lit("WHERE")>> \o Joined(b.wheres, "AND")

WhereClause(b) ==
    IF b.wheres = <<>> THEN <<>> ELSE <<Lit("WHERE")>> \o Joined(b.wheres, "AND")

LimitClause(b) ==
    LET limit == IF b.limitVar = 0 THEN <<>>
                 ELSE <<Lit("LIMIT"), Var(b.limitVar)>>
        offset == IF b.offsetVar = 0 THEN <<>>
                  ELSE <<Lit("OFFSET"), Var(b.offsetVar)>>
    IN  IF b.flavor = PostgreSQLFlavor THEN limit \o offset
        ELSE IF b.limitVar = 0 THEN <<>>
        ELSE limit \o offset

SelectFormat(b) ==
    <<Lit("SELECT")>> \o Joined(Words(b.fields), ",")
        \o <<Lit("FROM"), Lit(b.table)>>
        \o WhereClause(b)
        \o (IF b.orderBy = <<>> THEN <<>>
            ELSE <<Lit("ORDER"), Lit("BY")>> \o Joined(Words(b.orderBy), ","))
        \o LimitClause(b)
        \o (IF b.forUpdate THEN <<Lit("FOR"), Lit("UPDATE")>> ELSE <<>>)
        \o [i \in 1..Len(b.forSQL) |-> Lit(b.forSQL[i])]

UpdateFormat(b) ==
    <<Lit("UPDATE"), Lit(b.table), Lit("SET")>> \o Joined(b.sets, ",")
        \o WhereClause(b)

DeleteFormat(b) ==
    <<Lit("DELETE"), Lit("FROM"), Lit(b.table)>> \o WhereClause(b)

InsertFormat(b) ==
    <<Lit("INSERT"), Lit("INTO"), Lit(b.table), Lit("(")>>
        \o Joined(Words(b.cols), ",")
        \o <<Lit(")"), Lit("VALUES"), Lit("(")>>
        \o Joined(b.values, ",") \o <<Lit(")")>>

Format(b) ==
    CASE b.kind = "select" -> SelectFormat(b)
      [] b.kind = "insert" -> InsertFormat(b)
      [] b.kind = "update" -> UpdateFormat(b)
      [] b.kind = "delete" -> DeleteFormat(b)

\* A variant that numbers the PostgreSQL placeholders from zero.
PlaceholderFromZero(flavor, n) ==
    IF flavor = PostgreSQLFlavor THEN "$" \o ToString(n - 1) ELSE "?"

Placeholder(flavor, n) ==
    IF flavor = PostgreSQLFlavor THEN "$" \o ToString(n) ELSE "?"

RECURSIVE CompileFrom(_, _, _, _)
CompileFrom(format, args, flavor, n) ==
    IF format = <<>> THEN [sql |-> <<>>, args |-> <<>>]
    ELSE LET tok == Head(format)
             isVar == tok.t = "var"
             rest == CompileFrom(Tail(format), args, flavor,
                                 IF isVar THEN n + 1 ELSE n)
         IN  IF isVar
             THEN [sql |-> <<Placeholder(flavor, n + 1)>> \o rest.sql,
                   args |-> <<args[tok.n]>> \o rest.args]
             ELSE [sql |-> <<tok.s>> \o rest.sql, args |-> rest.args]

\* Variants with one slip each: the registry returned as it was filled, and
\* nil arguments left out of the argument list.
CompileInRegistrationOrder(format, args, flavor) ==
    [sql |-> CompileFrom(format, args, flavor, 0).sql, args |-> args]

Compile(format, args, flavor) == CompileFrom(format, args, flavor, 0)

BuildDroppingNil(b) ==
    LET r == Compile(Format(b), b.args, b.flavor)
    IN  [sql |-> r.sql, args |-> SelectSeq(r.args, LAMBDA v : v # Nil)]

Build(b) == Compile(Format(b), b.args, b.flavor)

-----------------------------------------------------------------------------
(* query.go: parseIn and the three filter compilers *)

(* Variants of the filter compilers with one slip each, used to show that   *)
(* the properties below depend on the code.                                 *)

parseInSkipEmpty(value) ==
    LET values == SelectSeq(Split(value, ","), LAMBDA v : v # <<>>)
    IN  [i \in 1..Len(values) |-> StrV(values[i])]

ParseFilterSlip(b, key, value, slip) ==
    LET split == Split(key, ".")
        parsedKey == Text(split[1])
        compare == IF Len(split) > 1 THEN Text(split[2]) ELSE "="
        strings == [i \in 1..Len(Split(value.s, ",")) |->
                        StrV(Split(value.s, ",")[i])]
        nullKey == IF slip = "null on base" THEN parsedKey ELSE Text(key)
    IN  CASE compare = "=" /\ ~Contains(key, ".") ->
                IF value.t = "nil" /\ slip # "nil compared"
                THEN Where(b, IsNull(b.args, Text(key)))
                ELSE Where(b, Equal(b.args, Text(key), value))
          [] /\ slip = "nil as null"
             /\ value.t = "nil"
             /\ compare \in {"not", "gt", "gte", "lt", "lte", "like"} ->
                IF compare = "not"
                THEN Where(b, IsNotNull(b.args, parsedKey))
                ELSE Where(b, IsNull(b.args, parsedKey))
          [] compare = "in" ->
                IF value.t = "string" \/ slip = "unchecked"
                THEN Where(b, In(b.args, parsedKey, strings))
                ELSE b
          [] compare = "notin" ->
                IF value.t = "string" \/ slip = "unchecked"
                THEN Where(b, NotIn(b.args, parsedKey, strings))
                ELSE b
          [] compare = "not" -> Where(b, NotEqual(b.args, parsedKey, value))
          [] compare = "gt" -> Where(b, GreaterThan(b.args, parsedKey, value))
          [] compare = "gte" ->
                IF slip = "gte as gt"
                THEN Where(b, GreaterThan(b.args, parsedKey, value))
                ELSE Where(b, GreaterEqualThan(b.args, parsedKey, value))
          [] compare = "lt" -> Where(b, LessThan(b.args, parsedKey, value))
          [] compare = "lte" -> Where(b, LessEqualThan(b.args, parsedKey, value))
          [] compare = "like" -> Where(b, Like(b.args, parsedKey, value))
          [] compare = "null" ->
                IF value.t = "bool"
                THEN IF value.b
                     THEN Where(b, IsNull(b.args, nullKey))
                     ELSE Where(b, IsNotNull(b.args, nullKey))
                ELSE b
          [] OTHER ->
                IF slip = "unknown as equal"
                THEN Where(b, Equal(b.args, parsedKey, value))
                ELSE b

parseSelectFilterUnknownAsEqual(sb, key, value) ==
    ParseFilterSlip(sb, key, value, "unknown as equal")
parseUpdateFilterNilCompared(ub, key, value) ==
    ParseFilterSlip(ub, key, value, "nil compared")
parseDeleteFilterGteAsGt(db, key, value) ==
    ParseFilterSlip(db, key, value, "gte as gt")
parseDeleteFilterNullOnBase(db, key, value) ==
    ParseFilterSlip(db, key, value, "null on base")
parseSelectFilterNilAsNull(sb, key, value) ==
    ParseFilterSlip(sb, key, value, "nil as null")
parseUpdateFilterUnchecked(ub, key, value) ==
    ParseFilterSlip(ub, key, value, "unchecked")

parseIn(value) ==
    LET values == Split(value, ",")
    IN  [i \in 1..Len(values) |-> StrV(values[i])]

parseSelectFilter(sb, key, value) ==
    IF Contains(key, ".")
    THEN LET split == Split(key, ".")
             parsedKey == Text(split[1])
             compare == Text(split[2])
         IN  IF Len(split) < 2 THEN Panic(sb)
             ELSE
             CASE compare = "in" ->
                    IF value.t = "string"
                    THEN Where(sb, In(sb.args, parsedKey, parseIn(value.s)))
                    ELSE sb
               [] compare = "notin" ->
                    IF value.t = "string"
                    THEN Where(sb, NotIn(sb.args, parsedKey, parseIn(value.s)))
                    ELSE sb
               [] compare = "not" -> Where(sb, NotEqual(sb.args, parsedKey, value))
               [] compare = "gt" -> Where(sb, GreaterThan(sb.args, parsedKey, value))
               [] compare = "gte" ->
                    Where(sb, GreaterEqualThan(sb.args, parsedKey, value))
               [] compare = "lt" -> Where(sb, LessThan(sb.args, parsedKey, value))
               [] compare = "lte" ->
                    Where(sb, LessEqualThan(sb.args, parsedKey, value))
               [] compare = "like" -> Where(sb, Like(sb.args, parsedKey, value))
               [] compare = "null" ->
                    IF value.t = "bool"
                    THEN IF value.b
                         THEN Where(sb, IsNull(sb.args, Text(key)))
                         ELSE Where(sb, IsNotNull(sb.args, Text(key)))
                    ELSE sb
               [] OTHER -> sb
    ELSE IF value.t = "nil"
         THEN Where(sb, IsNull(sb.args, Text(key)))
         ELSE Where(sb, Equal(sb.args, Text(key), value))

parseUpdateFilter(ub, key, value) ==
    IF Contains(key, ".")
    THEN LET split == Split(key, ".")
             parsedKey == Text(split[1])
             compare == Text(split[2])
         IN  IF Len(split) < 2 THEN Panic(ub)
             ELSE
             CASE compare = "in" ->
                    IF value.t = "string"
                    THEN Where(ub, In(ub.args, parsedKey, parseIn(value.s)))
                    ELSE ub
               [] compare = "notin" ->
                    IF value.t = "string"
                    THEN Where(ub, NotIn(ub.args, parsedKey, parseIn(value.s)))
                    ELSE ub
               [] compare = "not" -> Where(ub, NotEqual(ub.args, parsedKey, value))
               [] compare = "gt" -> Where(ub, GreaterThan(ub.args, parsedKey, value))
               [] compare = "gte" ->
                    Where(ub, GreaterEqualThan(ub.args, parsedKey, value))
               [] compare = "lt" -> Where(ub, LessThan(ub.args, parsedKey, value))
               [] compare = "lte" ->
                    Where(ub, LessEqualThan(ub.args, parsedKey, value))
               [] compare = "like" -> Where(ub, Like(ub.args, parsedKey, value))
               [] compare = "null" ->
                    IF value.t = "bool"
                    THEN IF value.b
                         THEN Where(ub, IsNull(ub.args, Text(key)))
                         ELSE Where(ub, IsNotNull(ub.args, Text(key)))
                    ELSE ub
               [] OTHER -> ub
    ELSE IF value.t = "nil"
         THEN Where(ub, IsNull(ub.args, Text(key)))
         ELSE Where(ub, Equal(ub.args, Text(key), value))

parseDeleteFilter(db, key, value) ==
    IF Contains(key, ".")
    THEN LET split == Split(key, ".")
             parsedKey == Text(split[1])
             compare == Text(split[2])
         IN  IF Len(split) < 2 THEN Panic(db)
             ELSE
             CASE compare = "in" ->
                    IF value.t = "string"
                    THEN Where(db, In(db.args, parsedKey, parseIn(value.s)))
                    ELSE db
               [] compare = "notin" ->
                    IF value.t = "string"
                    THEN Where(db, NotIn(db.args, parsedKey, parseIn(value.s)))
                    ELSE db
               [] compare = "not" -> Where(db, NotEqual(db.args, parsedKey, value))
               [] compare = "gt" -> Where(db, GreaterThan(db.args, parsedKey, value))
               [] compare = "gte" ->
                    Where(db, GreaterEqualThan(db.args, parsedKey, value))
               [] compare = "lt" -> Where(db, LessThan(db.args, parsedKey, value))
               [] compare = "lte" ->
                    Where(db, LessEqualThan(db.args, parsedKey, value))
               [] compare = "like" -> Where(db, Like(db.args, parsedKey, value))
               [] compare = "null" ->
                    IF value.t = "bool"
                    THEN IF value.b
                         THEN Where(db, IsNull(db.args, Text(key)))
                         ELSE Where(db, IsNotNull(db.args, Text(key)))
                    ELSE db
               [] OTHER -> db
    ELSE IF value.t = "nil"
         THEN Where(db, IsNull(db.args, Text(key)))
         ELSE Where(db, Equal(db.args, Text(key), value))

-----------------------------------------------------------------------------
(* The state: the heap of Go maps, the records held, the last result *)

MaxHandles == 2

EmptyMap == <<>>
Put(m, key, value) ==
    [k \in DOMAIN m \cup {key} |-> IF k = key THEN value ELSE m[k]]

\* The heap has room for the maps of MaxHandles records; a map no record
\* refers to any more is collected.
MapIds == 1..(2 * MaxHandles)
Free == [live |-> FALSE, m |-> EmptyMap]
Allocated == [live |-> TRUE, m |-> EmptyMap]
FreeIds(hp) == {i \in MapIds : ~hp[i].live}
FirstFree(hp) == CHOOSE i \in FreeIds(hp) : \A j \in FreeIds(hp) : i <= j
SecondFree(hp) ==
    CHOOSE i \in FreeIds(hp) \ {FirstFree(hp)} :
        \A j \in FreeIds(hp) \ {FirstFree(hp)} : i <= j
Referenced(hs) == {o.Filters : o \in hs} \cup {o.Assignments : o \in hs}
Collect(hp, hs) == [i \in MapIds |-> IF i \in Referenced(hs) THEN hp[i] ELSE Free]

\* origin names the constructor call a record descends from (the first map
\* that call made): `copy := *f` carries it along with the other fields.
Options(kind, flavor, filters, assignments) ==
    [kind |-> kind, Flavor |-> flavor, Fields |-> <<"*">>, Filters |-> filters,
     Limit |-> 0, Offset |-> 0, OrderBy |-> "",
     ForUpdate |-> FALSE, ForUpdateMode |-> "", Assignments |-> assignments,
     origin |-> IF assignments = 0 THEN filters ELSE assignments]

NoOptions == Options("none", 0, 0, 0)
CallOf(flavor, tag, tableName, id, structValue) ==
    [flavor |-> flavor, tag |-> tag, table |-> tableName, id |-> id,
     record |-> structValue]
NoOut ==
    [kind |-> "none", options |-> NoOptions, call |-> CallOf(0, "", "", Nil, <<>>),
     sql |-> <<>>, args |-> <<>>]

NoCall(b) == [n |-> 0, key |-> <<>>, value |-> Nil, before |-> b]

\* Goroutines calling With* methods at once, and a goroutine outside any call.
MaxRoutines == 2
Goroutines == 1..MaxRoutines
Idle == [pc |-> "idle", copy |-> NoOptions, method |-> "", field |-> <<>>,
         value |-> Nil]

-----------------------------------------------------------------------------
(* The filter harness: query_test.go builds a statement over test_table,    *)
(* calls one parse*Filter on it and compiles it.                            *)

MaxCalls == 1

Operators ==
    {"in", "notin", "not", "gt", "gte", "lt", "lte", "like", "null"}

FilterKeys ==
    {<<>>, <<".">>, <<".", "in">>, <<"id">>, <<"id", ".">>, <<"id", ".", "eq">>, <<"t", ".", "col">>,
     <<"deleted_at", ".", "null">>,
     <<"id", ".", "in", ".", "x">>, <<"a", ".", "b", ".", "in">>,
     <<"id", ".", "gt", ".", "x">>, <<"id", ".", "null", ".", "x">>}
        \cup {<<"id", ".", op>> : op \in Operators}

FilterValues ==
    {Nil, BoolV(TRUE), BoolV(FALSE), IntV(1),
     StrV(<<>>), StrV(<<"1">>), StrV(<<"1", ",", "2", ",", "3">>),
     StrV(<<"a", ",", " b">>)}

TestBuilder(kind, flavor) ==
    CASE kind = "select" ->
            From(Select(SetFlavor(NewSelectBuilder, flavor), <<"*">>),
                 "test_table")
      [] kind = "update" ->
            LET ub == Update(SetFlavor(NewUpdateBuilder, flavor), "test_table")
                a == Assign(ub.args, "field", StrV(<<"field">>))
            IN  Set(WithArgs(ub, a.args), <<a.expr>>)
      [] kind = "delete" ->
            DeleteFrom(SetFlavor(NewDeleteBuilder, flavor), "test_table")

InitParse ==
    /\ heap = [i \in MapIds |-> Free]
    /\ handles = {}
    /\ out = NoOut
    /\ \E kind \in {"select", "update", "delete"}, flavor \in Flavors :
          bld = TestBuilder(kind, flavor)
    /\ last = NoCall(bld)
    /\ running = [g \in Goroutines |-> Idle]

Called(b, key, value) ==
    /\ last.n < MaxCalls
    /\ bld' = b
    /\ last' = [n |-> last.n + 1, key |-> key, value |-> value, before |-> bld]
    /\ UNCHANGED <<heap, handles, out, running>>

TestParseSelectFilter ==
    /\ bld.kind = "select"
    /\ \E key \in FilterKeys, value \in FilterValues :
          Called(parseSelectFilter(bld, key, value), key, value)

TestParseUpdateFilter ==
    /\ bld.kind = "update"
    /\ \E key \in FilterKeys, value \in FilterValues :
          Called(parseUpdateFilter(bld, key, value), key, value)

TestParseDeleteFilter ==
    /\ bld.kind = "delete"
    /\ \E key \in FilterKeys, value \in FilterValues :
          Called(parseDeleteFilter(bld, key, value), key, value)

NextParse ==
    \/ TestParseSelectFilter
    \/ TestParseUpdateFilter
    \/ TestParseDeleteFilter

SpecParse == InitParse /\ [][NextParse]_vars

-----------------------------------------------------------------------------
(* options.go: the options records.  A record holds its filter (and         *)
(* assignment) mapping by reference: Filters and Assignments are ids of     *)
(* maps in the heap.  handles are the records the caller holds: a     *)
(* With* call allocates a copy of its receiver and returns it.              *)

OptionFields == {<<"id", "name">>}
OptionModes == {"", "SKIP LOCKED"}
OptionLimits == {0, 5}
OptionOffsets == {0, 10}
OptionOrders == {"", "id asc"}
OptionFilterKeys == {<<"id", ".", "in">>, <<"status">>}
OptionFilterValues == {Nil, IntV(1), StrV(<<"1", ",", "2">>)}
OptionColumns == {"age", "name"}
OptionColumnValues == {IntV(43), StrV(<<"x">>)}
Tables == {"test_table"}

Init ==
    /\ heap = [i \in MapIds |-> Free]
    /\ handles = {}
    /\ out = NoOut
    /\ bld = NewSelectBuilder
    /\ last = NoCall(NewSelectBuilder)
    /\ running = [g \in Goroutines |-> Idle]

Returned(copy) ==
    /\ Cardinality(handles \cup {copy}) <= MaxHandles
    /\ handles' = handles \cup {copy}
    /\ out' = NoOut
    /\ UNCHANGED <<bld, last, running>>

\* The caller lets go of a record.
Drop(o) ==
    /\ handles' = handles \ {o}
    /\ heap' = Collect(heap, handles')
    /\ out' = NoOut
    /\ UNCHANGED <<bld, last, running>>

\* The caller works with the records of one constructor call at a time.
Constructed(options) ==
    /\ handles = {}
    /\ heap' = [i \in MapIds |->
                   IF i \in {options.Filters, options.Assignments}
                   THEN Allocated ELSE heap[i]]
    /\ handles' = {options}
    /\ out' = NoOut
    /\ UNCHANGED <<bld, last, running>>

NewFindOptions(flavor) ==
    Constructed(Options("find", flavor, FirstFree(heap), 0))

NewFindAllOptions(flavor) ==
    Constructed(Options("findall", flavor, FirstFree(heap), 0))

NewUpdateOptions(flavor) ==
    Constructed(Options("update", flavor, SecondFree(heap), FirstFree(heap)))

NewDeleteOptions(flavor) ==
    Constructed(Options("delete", flavor, FirstFree(heap), 0))

FindWithFields(o, fields) ==
    /\ o.kind = "find"
    /\ Returned([o EXCEPT !.Fields = fields])
    /\ UNCHANGED heap

\* A variant that gives the copy a map of its own.
FindWithFilterCopying(o, field, value) ==
    /\ o.kind = "find"
    /\ FreeIds(heap) # {}
    /\ heap' = [heap EXCEPT ![FirstFree(heap)] =
                    [live |-> TRUE, m |-> Put(heap[o.Filters].m, field, value)]]
    /\ Returned([o EXCEPT !.Filters = FirstFree(heap)])

FindWithFilter(o, field, value) ==
    /\ o.kind = "find"
    /\ heap' = [heap EXCEPT ![o.Filters].m = Put(@, field, value)]
    /\ Returned(o)

FindWithForUpdate(o, mode) ==
    /\ o.kind = "find"
    /\ Returned([o EXCEPT !.ForUpdate = TRUE,
                                      !.ForUpdateMode = mode])
    /\ UNCHANGED heap

FindAllWithFields(o, fields) ==
    /\ o.kind = "findall"
    /\ Returned([o EXCEPT !.Fields = fields])
    /\ UNCHANGED heap

FindAllWithFilter(o, field, value) ==
    /\ o.kind = "findall"
    /\ heap' = [heap EXCEPT ![o.Filters].m = Put(@, field, value)]
    /\ Returned(o)

\* A variant that sets the limit in the receiver itself.
FindAllWithLimitInPlace(o, limit) ==
    /\ o.kind = "findall"
    /\ handles' = (handles \ {o}) \cup {[o EXCEPT !.Limit = limit]}
    /\ out' = NoOut
    /\ UNCHANGED <<heap, bld, last, running>>

FindAllWithLimit(o, limit) ==
    /\ o.kind = "findall"
    /\ Returned([o EXCEPT !.Limit = limit])
    /\ UNCHANGED heap

\* A variant that returns the copy with the locking flag cleared.
FindAllWithOffsetUnlocking(o, offset) ==
    /\ o.kind = "findall"
    /\ Returned([o EXCEPT !.Offset = offset, !.ForUpdate = FALSE])
    /\ UNCHANGED heap

FindAllWithOffset(o, offset) ==
    /\ o.kind = "findall"
    /\ Returned([o EXCEPT !.Offset = offset])
    /\ UNCHANGED heap

FindAllWithOrderBy(o, orderBy) ==
    /\ o.kind = "findall"
    /\ Returned([o EXCEPT !.OrderBy = orderBy])
    /\ UNCHANGED heap

FindAllWithForUpdate(o, mode) ==
    /\ o.kind = "findall"
    /\ Returned([o EXCEPT !.ForUpdate = TRUE,
                                      !.ForUpdateMode = mode])
    /\ UNCHANGED heap

UpdateWithAssignment(o, field, value) ==
    /\ o.kind = "update"
    /\ heap' = [heap EXCEPT ![o.Assignments].m = Put(@, field, value)]
    /\ Returned(o)

UpdateWithFilter(o, field, value) ==
    /\ o.kind = "update"
    /\ heap' = [heap EXCEPT ![o.Filters].m = Put(@, field, value)]
    /\ Returned(o)

DeleteWithFilter(o, field, value) ==
    /\ o.kind = "delete"
    /\ heap' = [heap EXCEPT ![o.Filters].m = Put(@, field, value)]
    /\ Returned(o)

-----------------------------------------------------------------------------
(* query.go: the statement assemblers.  `range` over a Go map visits the    *)
(* entries in an order the runtime chooses: the order is an input of the    *)
(* assembler, any enumeration of the map's keys.                            *)

Orders(m) ==
    LET n == Cardinality(DOMAIN m)
    IN  {o \in [1..n -> DOMAIN m] : \A i, j \in 1..n : o[i] = o[j] => i = j}

RECURSIVE RangeSelectFilters(_, _, _)
RangeSelectFilters(sb, m, order) ==
    IF order = <<>> THEN sb
    ELSE RangeSelectFilters(parseSelectFilter(sb, Head(order), m[Head(order)]),
                            m, Tail(order))

RECURSIVE RangeUpdateFilters(_, _, _)
RangeUpdateFilters(ub, m, order) ==
    IF order = <<>> THEN ub
    ELSE RangeUpdateFilters(parseUpdateFilter(ub, Head(order), m[Head(order)]),
                            m, Tail(order))

RECURSIVE RangeDeleteFilters(_, _, _)
RangeDeleteFilters(db, m, order) ==
    IF order = <<>> THEN db
    ELSE RangeDeleteFilters(parseDeleteFilter(db, Head(order), m[Head(order)]),
                            m, Tail(order))

\* A variant that locks whether or not the flag is set.
LockForAlways(sb, options) ==
    IF options.ForUpdateMode # ""
    THEN SQL(ForUpdate(sb), options.ForUpdateMode)
    ELSE ForUpdate(sb)

LockFor(sb, options) ==
    IF options.ForUpdate
    THEN IF options.ForUpdateMode # ""
         THEN SQL(ForUpdate(sb), options.ForUpdateMode)
         ELSE ForUpdate(sb)
    ELSE sb

\* The assemblers over the maps their record refers to: filters (and
\* assignments) are the contents of options.Filters (and options.Assignments).
FindQueryOver(tableName, options, filters, order) ==
    LET sb == From(Select(SetFlavor(NewSelectBuilder, options.Flavor),
                          options.Fields), tableName)
        filtered == RangeSelectFilters(sb, filters, order)
    IN  Build(LockFor(filtered, options))

FindQuery(tableName, options, order) ==
    FindQueryOver(tableName, options, heap[options.Filters].m, order)

\* Variants of FindAllQuery with one slip each: the limit and the offset
\* exchanged, and a zero limit or offset left out.
FindAllQueryExchanged(tableName, options, order) ==
    LET sb == Offset(Limit(From(Select(SetFlavor(NewSelectBuilder,
                                                 options.Flavor),
                                       options.Fields), tableName),
                           options.Offset), options.Limit)
        filtered == RangeSelectFilters(sb, heap[options.Filters].m, order)
        ordered == IF options.OrderBy # "" THEN OrderBy(filtered, options.OrderBy)
                   ELSE filtered
    IN  Build(LockFor(ordered, options))

FindAllQuerySkippingZero(tableName, options, order) ==
    LET sb == From(Select(SetFlavor(NewSelectBuilder, options.Flavor),
                          options.Fields), tableName)
        limited == IF options.Limit # 0 THEN Limit(sb, options.Limit) ELSE sb
        paged == IF options.Offset # 0 THEN Offset(limited, options.Offset)
                 ELSE limited
        filtered == RangeSelectFilters(paged, heap[options.Filters].m, order)
        ordered == IF options.OrderBy # "" THEN OrderBy(filtered, options.OrderBy)
                   ELSE filtered
    IN  Build(LockFor(ordered, options))

FindAllQueryOver(tableName, options, filters, order) ==
    LET sb == Offset(Limit(From(Select(SetFlavor(NewSelectBuilder,
                                                 options.Flavor),
                                       options.Fields), tableName),
                           options.Limit), options.Offset)
        filtered == RangeSelectFilters(sb, filters, order)
        ordered == IF options.OrderBy # "" THEN OrderBy(filtered, options.OrderBy)
                   ELSE filtered
    IN  Build(LockFor(ordered, options))

FindAllQuery(tableName, options, order) ==
    FindAllQueryOver(tableName, options, heap[options.Filters].m, order)

\* The byte order of the assignment texts `column = $k`: the column names of
\* the model in ascending order.
ColumnOrder == <<"age", "field", "id", "name">>
RankOf(column) == CHOOSE i \in 1..Len(ColumnOrder) : ColumnOrder[i] = column
StringLess(a, b) ==
    \/ RankOf(a[1].s) < RankOf(b[1].s)
    \/ RankOf(a[1].s) = RankOf(b[1].s) /\ a[3].n < b[3].n

\* A variant that leaves the assignments in the order of the iteration.
SortStringsSkipped(texts) == texts

RECURSIVE SortStrings(_)
SortStrings(texts) ==
    IF texts = <<>> THEN <<>>
    ELSE LET first == CHOOSE i \in 1..Len(texts) :
                          \A j \in 1..Len(texts) : ~StringLess(texts[j], texts[i])
         IN  <<texts[first]>>
                \o SortStrings(SubSeq(texts, 1, first - 1)
                               \o SubSeq(texts, first + 1, Len(texts)))

RECURSIVE RangeAssignments(_, _, _)
RangeAssignments(r, m, order) ==
    IF order = <<>> THEN r
    ELSE LET a == Assign(r.args, Text(<<Head(order)>>), m[Head(order)])
         IN  RangeAssignments([args |-> a.args,
                               assignments |-> Append(r.assignments, a.expr)],
                              m, Tail(order))

UpdateWithOptionsQueryOver(tableName, options, assignments, filters, assignOrder, order) ==
    LET ub == Update(SetFlavor(NewUpdateBuilder, options.Flavor), tableName)
        r == RangeAssignments([args |-> ub.args, assignments |-> <<>>],
                              assignments, assignOrder)
        set == Set(WithArgs(ub, r.args), SortStrings(r.assignments))
    IN  Build(RangeUpdateFilters(set, filters, order))

UpdateWithOptionsQuery(tableName, options, assignOrder, order) ==
    UpdateWithOptionsQueryOver(tableName, options, heap[options.Assignments].m,
                               heap[options.Filters].m, assignOrder, order)

DeleteWithOptionsQueryOver(tableName, options, filters, order) ==
    LET db == DeleteFrom(SetFlavor(NewDeleteBuilder, options.Flavor), tableName)
    IN  Build(RangeDeleteFilters(db, filters, order))

DeleteWithOptionsQuery(tableName, options, order) ==
    DeleteWithOptionsQueryOver(tableName, options, heap[options.Filters].m, order)

\* A variant that hands the id to the filter compiler.
DeleteQueryFiltered(flavor, tableName, id) ==
    LET db == DeleteFrom(SetFlavor(NewDeleteBuilder, flavor), tableName)
    IN  Build(parseDeleteFilter(db, <<"id">>, id))

DeleteQuery(flavor, tableName, id) ==
    LET db == DeleteFrom(SetFlavor(NewDeleteBuilder, flavor), tableName)
    IN  Build(Where(db, Equal(db.args, "id", id)))

\* sqlbuilder.Struct: the columns and values of the fields of a record that
\* carry the tag, in field order.  A record is a sequence of fields.
Player(id, name) ==
    <<[column |-> "id", tags |-> {"insert"}, value |-> IntV(id)],
      [column |-> "name", tags |-> {"insert", "update"}, value |-> StrV(<<name>>)]>>

\* A variant that takes every field, tagged or not.
WithTagAll(structValue, tag) == structValue

WithTag(structValue, tag) == SelectSeq(structValue, LAMBDA f : tag \in f.tags)

InsertQuery(flavor, tag, tableName, structValue) ==
    LET fields == WithTag(structValue, tag)
        ib == InsertInto(SetFlavor(NewInsertBuilder, flavor), tableName)
    IN  Build(Values(Cols(ib, [i \in 1..Len(fields) |-> fields[i].column]),
                     [i \in 1..Len(fields) |-> fields[i].value]))

RECURSIVE AssignFields(_, _)
AssignFields(r, fields) ==
    IF fields = <<>> THEN r
    ELSE LET a == Assign(r.args, Head(fields).column, Head(fields).value)
         IN  AssignFields([args |-> a.args,
                           assignments |-> Append(r.assignments, a.expr)],
                          Tail(fields))

\* A variant that hands the id to the filter compiler.
UpdateQueryFiltered(flavor, tag, tableName, id, structValue) ==
    LET ub == Update(SetFlavor(NewUpdateBuilder, flavor), tableName)
        r == AssignFields([args |-> ub.args, assignments |-> <<>>],
                          WithTag(structValue, tag))
        set == Set(WithArgs(ub, r.args), r.assignments)
    IN  Build(parseUpdateFilter(set, <<"id">>, id))

UpdateQuery(flavor, tag, tableName, id, structValue) ==
    LET ub == Update(SetFlavor(NewUpdateBuilder, flavor), tableName)
        r == AssignFields([args |-> ub.args, assignments |-> <<>>],
                          WithTag(structValue, tag))
        set == Set(WithArgs(ub, r.args), r.assignments)
    IN  Build(Where(set, Equal(set.args, "id", id)))

Compiled(kind, o, call, result) ==
    /\ out' = [kind |-> kind, options |-> o, call |-> call,
               sql |-> result.sql, args |-> result.args]
    /\ UNCHANGED <<heap, handles, bld, last, running>>

CallFindQuery(o) ==
    /\ o.kind = "find"
    /\ \E tableName \in Tables, order \in Orders(heap[o.Filters].m) :
          Compiled("FindQuery", o, CallOf(o.Flavor, "", tableName, Nil, <<>>), FindQuery(tableName, o, order))

CallFindAllQuery(o) ==
    /\ o.kind = "findall"
    /\ \E tableName \in Tables, order \in Orders(heap[o.Filters].m) :
          Compiled("FindAllQuery", o, CallOf(o.Flavor, "", tableName, Nil, <<>>), FindAllQuery(tableName, o, order))

CallUpdateWithOptionsQuery(o) ==
    /\ o.kind = "update"
    /\ \E tableName \in Tables,
          assignOrder \in Orders(heap[o.Assignments].m),
          order \in Orders(heap[o.Filters].m) :
          Compiled("UpdateWithOptionsQuery", o, CallOf(o.Flavor, "", tableName, Nil, <<>>),
                   UpdateWithOptionsQuery(tableName, o, assignOrder, order))

CallDeleteWithOptionsQuery(o) ==
    /\ o.kind = "delete"
    /\ \E tableName \in Tables, order \in Orders(heap[o.Filters].m) :
          Compiled("DeleteWithOptionsQuery", o, CallOf(o.Flavor, "", tableName, Nil, <<>>),
                   DeleteWithOptionsQuery(tableName, o, order))

\* InsertQuery, UpdateQuery and DeleteQuery read no options record: they are
\* called while the caller holds none.
Tags == {"insert", "update"}
Records == {Player(1, "Ronaldinho 10"), Player(2, "Ronaldinho Bruxo")}
Ids == {Nil, IntV(1), IntV(2)}

CallInsertQuery ==
    /\ handles = {}
    /\ \E flavor \in Flavors, tag \in Tags, tableName \in Tables,
          structValue \in Records :
          Compiled("InsertQuery", NoOptions,
                   CallOf(flavor, tag, tableName, Nil, structValue),
                   InsertQuery(flavor, tag, tableName, structValue))

CallUpdateQuery ==
    /\ handles = {}
    /\ \E flavor \in Flavors, tag \in Tags, tableName \in Tables, id \in Ids,
          structValue \in Records :
          Compiled("UpdateQuery", NoOptions,
                   CallOf(flavor, tag, tableName, id, structValue),
                   UpdateQuery(flavor, tag, tableName, id, structValue))

CallDeleteQuery ==
    /\ handles = {}
    /\ \E flavor \in Flavors, tableName \in Tables, id \in Ids :
          Compiled("DeleteQuery", NoOptions,
                   CallOf(flavor, "", tableName, id, <<>>),
                   DeleteQuery(flavor, tableName, id))

Next ==
    \/ CallInsertQuery
    \/ CallUpdateQuery
    \/ CallDeleteQuery
    \/ \E flavor \in Flavors : NewFindOptions(flavor)
    \/ \E flavor \in Flavors : NewFindAllOptions(flavor)
    \/ \E flavor \in Flavors : NewUpdateOptions(flavor)
    \/ \E flavor \in Flavors : NewDeleteOptions(flavor)
    \/ \E o \in handles, fields \in OptionFields : FindWithFields(o, fields)
    \/ \E o \in handles, field \in OptionFilterKeys, value \in OptionFilterValues :
          FindWithFilter(o, field, value)
    \/ \E o \in handles, mode \in OptionModes : FindWithForUpdate(o, mode)
    \/ \E o \in handles, fields \in OptionFields : FindAllWithFields(o, fields)
    \/ \E o \in handles, field \in OptionFilterKeys, value \in OptionFilterValues :
          FindAllWithFilter(o, field, value)
    \/ \E o \in handles, limit \in OptionLimits : FindAllWithLimit(o, limit)
    \/ \E o \in handles, offset \in OptionOffsets : FindAllWithOffset(o, offset)
    \/ \E o \in handles, orderBy \in OptionOrders : FindAllWithOrderBy(o, orderBy)
    \/ \E o \in handles, mode \in OptionModes : FindAllWithForUpdate(o, mode)
    \/ \E o \in handles, field \in OptionColumns, value \in OptionColumnValues :
          UpdateWithAssignment(o, field, value)
    \/ \E o \in handles, field \in OptionFilterKeys, value \in OptionFilterValues :
          UpdateWithFilter(o, field, value)
    \/ \E o \in handles, field \in OptionFilterKeys, value \in OptionFilterValues :
          DeleteWithFilter(o, field, value)
    \/ \E o \in handles : Drop(o)
    \/ \E o \in handles : CallFindQuery(o)
    \/ \E o \in handles : CallFindAllQuery(o)
    \/ \E o \in handles : CallUpdateWithOptionsQuery(o)
    \/ \E o \in handles : CallDeleteWithOptionsQuery(o)

Spec == Init /\ [][Next]_vars

-----------------------------------------------------------------------------
(* Two constructor calls side by side: the caller holds records of one call *)
(* and makes another.  Find and update records, PostgreSQL, one filter key  *)
(* and one column.                                                          *)

ShareFlavors == {PostgreSQLFlavor}
ShareFilterKeys == {<<"status">>}
ShareColumns == {"name"}

ConstructedBeside(options) ==
    /\ Cardinality(handles) < MaxHandles
    /\ heap' = [i \in MapIds |->
                   IF i \in {options.Filters, options.Assignments}
                   THEN Allocated ELSE heap[i]]
    /\ handles' = handles \cup {options}
    /\ out' = NoOut
    /\ UNCHANGED <<bld, last, running>>

NewFindOptionsBeside(flavor) ==
    ConstructedBeside(Options("find", flavor, FirstFree(heap), 0))

NewUpdateOptionsBeside(flavor) ==
    ConstructedBeside(Options("update", flavor, SecondFree(heap), FirstFree(heap)))

NextShare ==
    \/ \E flavor \in ShareFlavors : NewFindOptionsBeside(flavor)
    \/ \E flavor \in ShareFlavors : NewUpdateOptionsBeside(flavor)
    \/ \E o \in handles, field \in ShareFilterKeys, value \in OptionFilterValues :
          FindWithFilter(o, field, value)
    \/ \E o \in handles, mode \in OptionModes : FindWithForUpdate(o, mode)
    \/ \E o \in handles, field \in ShareColumns, value \in OptionColumnValues :
          UpdateWithAssignment(o, field, value)
    \/ \E o \in handles, field \in ShareFilterKeys, value \in OptionFilterValues :
          UpdateWithFilter(o, field, value)
    \/ \E o \in handles : Drop(o)
    \/ \E o \in handles : CallFindQuery(o)
    \/ \E o \in handles : CallUpdateWithOptionsQuery(o)

SpecShare == Init /\ [][NextShare]_vars

-----------------------------------------------------------------------------
(* Properties of one parse*Filter call (checked under SpecParse).  The key  *)
(* is read here the way the filter mini-language is documented: the base    *)
(* field is the text before the first dot, the suffix the text between the  *)
(* first dot and the next one.                                              *)

HasDot(key) == \E i \in 1..Len(key) : key[i] = "."
FirstDot(key) ==
    CHOOSE i \in 1..Len(key) : key[i] = "." /\ \A j \in 1..(i - 1) : key[j] # "."
BaseOf(key) == Text(SubSeq(key, 1, FirstDot(key) - 1))
AfterFirstDot(key) == SubSeq(key, FirstDot(key) + 1, Len(key))
SuffixOf(key) ==
    LET rest == AfterFirstDot(key)
    IN  IF HasDot(rest) THEN Text(SubSeq(rest, 1, FirstDot(rest) - 1))
        ELSE Text(rest)

AfterCall == last.n > 0
Before == Build(last.before)
After == Build(bld)
Connective == IF last.before.wheres = <<>> THEN "WHERE" ELSE "AND"
NewPlaceholder(k) == Placeholder(bld.flavor, Len(Before.args) + k)
NewArgs == SubSeq(After.args, Len(Before.args) + 1, Len(After.args))

MalformedEntry(key, value) ==
    /\ HasDot(key)
    /\ \/ SuffixOf(key) \in {"in", "notin"} /\ value.t # "string"
       \/ SuffixOf(key) = "null" /\ value.t # "bool"
       \/ SuffixOf(key) \notin Operators

\* C5: a malformed filter entry (in/notin with a non-string value, null with
\* a non-boolean value, a suffix outside the operator set) leaves the
\* compiled statement and its arguments as they were without the entry.
ThmC5_MalformedDropped ==
    AfterCall /\ MalformedEntry(last.key, last.value) => After = Before

WitC5_MalformedDropped ==
    /\ AfterCall
    /\ bld.kind = "update"
    /\ last.key = <<"t", ".", "col">>
    /\ last.value = IntV(1)
    /\ After = Before

\* C6: a key without a dot compiles to `key IS NULL` with no placeholder and
\* no argument for a nil value, and to `key = <placeholder>` with the value
\* as the one new argument otherwise, in all three statement kinds.
ThmC6_BareKey ==
    AfterCall /\ ~HasDot(last.key) =>
        IF last.value = Nil
        THEN /\ After.sql = Before.sql
                    \o <<Connective, Text(last.key), "IS", "NULL">>
             /\ After.args = Before.args
        ELSE /\ After.sql = Before.sql
                    \o <<Connective, Text(last.key), "=", NewPlaceholder(1)>>
             /\ After.args = Append(Before.args, last.value)

WitC6_BareKey ==
    /\ AfterCall
    /\ bld.kind = "update"
    /\ bld.flavor = PostgreSQLFlavor
    /\ last.key = <<"id">>
    /\ last.value = Nil
    /\ After.sql = <<"UPDATE", "test_table", "SET", "field", "=", "$1",
                     "WHERE", "id", "IS", "NULL">>

CommasIn(s) == Cardinality({i \in 1..Len(s) : s[i] = ","})

RECURSIVE CommaJoined(_)
CommaJoined(tokens) ==
    IF tokens = <<>> THEN <<>>
    ELSE IF Len(tokens) = 1 THEN Head(tokens).s
    ELSE Head(tokens).s \o <<",">> \o CommaJoined(Tail(tokens))

RECURSIVE PlaceholderList(_, _)
PlaceholderList(k, n) ==
    IF n = 1 THEN <<NewPlaceholder(k)>>
    ELSE <<NewPlaceholder(k), ",">> \o PlaceholderList(k + 1, n - 1)

\* C7: `in` / `notin` with a string value gives `base IN (...)` /
\* `base NOT IN (...)` with one placeholder and one argument per token,
\* N = number of commas + 1; the arguments are the tokens, untrimmed
\* strings, in their order in the value.
ThmC7_InTokens ==
    AfterCall /\ HasDot(last.key) /\ SuffixOf(last.key) \in {"in", "notin"}
              /\ last.value.t = "string" =>
        LET n == CommasIn(last.value.s) + 1
        IN  /\ Len(NewArgs) = n
            /\ \A i \in 1..Len(NewArgs) :
                  NewArgs[i].t = "string" /\ CommasIn(NewArgs[i].s) = 0
            /\ CommaJoined(NewArgs) = last.value.s
            /\ After.sql = Before.sql
                  \o <<Connective, BaseOf(last.key)>>
                  \o (IF SuffixOf(last.key) = "in" THEN <<"IN">>
                      ELSE <<"NOT", "IN">>)
                  \o <<"(">> \o PlaceholderList(1, n) \o <<")">>

WitC7_InTokens ==
    /\ AfterCall
    /\ bld.kind = "select"
    /\ bld.flavor = PostgreSQLFlavor
    /\ last.key = <<"id", ".", "in">>
    /\ last.value = StrV(<<"1", ",", "2", ",", "3">>)
    /\ After.sql = <<"SELECT", "*", "FROM", "test_table", "WHERE", "id", "IN",
                     "(", "$1", ",", "$2", ",", "$3", ")">>
    /\ After.args = <<StrV(<<"1">>), StrV(<<"2">>), StrV(<<"3">>)>>

ComparisonOf(suffix) ==
    CASE suffix = "not" -> "<>"
      [] suffix = "gt" -> ">"
      [] suffix = "gte" -> ">="
      [] suffix = "lt" -> "<"
      [] suffix = "lte" -> "<="
      [] suffix = "like" -> "LIKE"

\* C8: each of the suffixes not, gt, gte, lt, lte, like gives one predicate
\* `base <op> <placeholder>` on the stripped base field, with the operator
\* <>, >, >=, <, <=, LIKE, and the value as the one new argument, the same
\* in the three statement kinds.
ThmC8_Comparisons ==
    AfterCall /\ HasDot(last.key)
              /\ SuffixOf(last.key) \in {"not", "gt", "gte", "lt", "lte", "like"} =>
        /\ After.sql = Before.sql
              \o <<Connective, BaseOf(last.key),
                   ComparisonOf(SuffixOf(last.key)), NewPlaceholder(1)>>
        /\ After.args = Append(Before.args, last.value)

WitC8_Comparisons ==
    /\ AfterCall
    /\ bld.kind = "delete"
    /\ bld.flavor = PostgreSQLFlavor
    /\ last.key = <<"id", ".", "gte">>
    /\ last.value = IntV(1)
    /\ After.sql = <<"DELETE", "FROM", "test_table", "WHERE", "id", ">=", "$1">>
    /\ After.args = <<IntV(1)>>

NullWords(value) ==
    IF value.b THEN <<"IS", "NULL">> ELSE <<"IS", "NOT", "NULL">>

CexC10_NullBaseColumn ==
    AfterCall /\ HasDot(last.key) /\ SuffixOf(last.key) = "null"
              /\ last.value.t = "bool" =>
        /\ After.sql = Before.sql
              \o <<Connective, BaseOf(last.key)>> \o NullWords(last.value)
        /\ \A i \in 1..Len(After.sql) : After.sql[i] # Text(last.key)

-----------------------------------------------------------------------------
(* Properties of the compiled statements (checked under Spec).  The SQL     *)
(* text is read here word by word, left to right, the way a driver binds    *)
(* arguments to it.                                                         *)

HasOut == out.kind # "none"
FromOptions ==
    out.kind \in {"FindQuery", "FindAllQuery", "UpdateWithOptionsQuery",
                  "DeleteWithOptionsQuery"}

IsPlaceholder(w) ==
    w = "?" \/ \E n \in 1..Len(out.sql) : w = "$" \o ToString(n)
PlaceholderPositions == {i \in 1..Len(out.sql) : IsPlaceholder(out.sql[i])}

\* C1: in every compiled statement, of every kind and flavor, the number of
\* placeholders in the SQL text equals the number of arguments.
ThmC1_PlaceholdersMatchArgs ==
    HasOut => Cardinality(PlaceholderPositions) = Len(out.args)

WitC1_PlaceholdersMatchArgs ==
    /\ out.kind = "UpdateWithOptionsQuery"
    /\ out.options.Flavor = MySQLFlavor
    /\ out.sql = <<"UPDATE", "test_table", "SET", "age", "=", "?", ",",
                   "name", "=", "?", "WHERE", "id", "IN", "(", "?", ",", "?", ")",
                   "AND", "status", "IS", "NULL">>
    /\ Len(out.args) = 4

Ordinal(i) == Cardinality({p \in PlaceholderPositions : p <= i})
WherePosition ==
    IF \E i \in 1..Len(out.sql) : out.sql[i] = "WHERE"
    THEN CHOOSE i \in 1..Len(out.sql) :
            out.sql[i] = "WHERE" /\ \A j \in 1..(i - 1) : out.sql[j] # "WHERE"
    ELSE Len(out.sql) + 1

FilterMap == heap[out.options.Filters].m
AssignmentMap == heap[out.options.Assignments].m

FieldValue(structValue, column) ==
    LET i == CHOOSE j \in 1..Len(structValue) : structValue[j].column = column
    IN  structValue[i].value

\* The j-th comma separated token of a string, read off the commas.
CommaPosition(s, j) ==
    IF j = 0 THEN 0
    ELSE IF j > CommasIn(s) THEN Len(s) + 1
    ELSE CHOOSE p \in 1..Len(s) :
            s[p] = "," /\ Cardinality({q \in 1..p : s[q] = ","}) = j
NthToken(s, j) ==
    SubSeq(s, CommaPosition(s, j - 1) + 1, CommaPosition(s, j) - 1)

KeyFor(column, comparison) ==
    CASE comparison = "=" -> <<column>>
      [] comparison = "<>" -> <<column, ".", "not">>
      [] comparison = ">" -> <<column, ".", "gt">>
      [] comparison = ">=" -> <<column, ".", "gte">>
      [] comparison = "<" -> <<column, ".", "lt">>
      [] comparison = "<=" -> <<column, ".", "lte">>
      [] comparison = "LIKE" -> <<column, ".", "like">>

OpenParen(i) ==
    CHOOSE j \in 1..(i - 1) :
        out.sql[j] = "(" /\ \A k \in (j + 1)..(i - 1) : out.sql[k] # "("

\* The columns an INSERT lists, in order.
ListedColumns ==
    LET open == CHOOSE j \in 1..Len(out.sql) :
                    out.sql[j] = "(" /\ \A k \in 1..(j - 1) : out.sql[k] # "("
        close == CHOOSE j \in 1..Len(out.sql) :
                    out.sql[j] = ")" /\ \A k \in 1..(j - 1) : out.sql[k] # ")"
    IN  SelectSeq(SubSeq(out.sql, open + 1, close - 1), LAMBDA w : w # ",")

\* The value the input gives to the placeholder at position i of the text.
ExpectedAt(i) ==
    LET prev == out.sql[i - 1]
    IN  CASE prev = "LIMIT" -> IntV(out.options.Limit)
          [] prev = "OFFSET" -> IntV(out.options.Offset)
          [] prev \in {"(", ","} ->
                LET open == OpenParen(i)
                    nth == Cardinality({p \in PlaceholderPositions :
                                            open < p /\ p <= i})
                    negated == out.sql[open - 2] = "NOT"
                    column == IF negated THEN out.sql[open - 3]
                              ELSE out.sql[open - 2]
                    key == <<column, ".", IF negated THEN "notin" ELSE "in">>
                IN  IF out.sql[open - 1] = "VALUES"
                    THEN FieldValue(out.call.record, ListedColumns[nth])
                    ELSE StrV(NthToken(FilterMap[key].s, nth))
          [] OTHER ->
                LET column == out.sql[i - 2]
                IN  IF i < WherePosition
                    THEN IF out.kind = "UpdateWithOptionsQuery"
                         THEN AssignmentMap[column]
                         ELSE FieldValue(out.call.record, column)
                    ELSE IF FromOptions THEN FilterMap[KeyFor(column, prev)]
                         ELSE out.call.id

\* C2: the Nth placeholder of the SQL text, read left to right, is bound to
\* the Nth argument: the Nth argument is the value the input gives to the
\* column (or LIMIT / OFFSET) that placeholder stands with, whatever the
\* order in which the values were registered and the maps were iterated.
ThmC2_ArgumentsInTextOrder ==
    HasOut =>
        \A i \in PlaceholderPositions :
            /\ Ordinal(i) <= Len(out.args)
            /\ out.args[Ordinal(i)] = ExpectedAt(i)
            /\ out.sql[i] \in {"?", "$" \o ToString(Ordinal(i))}

WitC2_ArgumentsInTextOrder ==
    /\ out.kind = "FindAllQuery"
    /\ out.options.Limit = 5
    /\ out.options.Offset = 10
    /\ out.sql = <<"SELECT", "*", "FROM", "test_table", "WHERE", "status", "=",
                   "$1", "LIMIT", "$2", "OFFSET", "$3">>
    /\ out.args = <<StrV(<<"1", ",", "2">>), IntV(5), IntV(10)>>

\* C3: compiling the same options record twice with FindQuery, FindAllQuery,
\* UpdateWithOptionsQuery or DeleteWithOptionsQuery gives the same SQL text
\* and the same arguments.
CexC3_SameRecordSameStatement ==
    [][(FromOptions /\ out'.kind = out.kind /\ out'.options = out.options
            /\ out'.call = out.call)
        => (out'.sql = out.sql /\ out'.args = out.args)]_vars

BaseOrKey(key) == IF HasDot(key) THEN BaseOf(key) ELSE Text(key)

\* The filter keys of the model in ascending byte order of their text.
FilterKeyOrder == <<<<"id", ".", "in">>, <<"status">>>>
ColumnPosition(column) ==
    CHOOSE i \in (WherePosition + 1)..Len(out.sql) :
        out.sql[i] = column
            /\ \A j \in (WherePosition + 1)..(i - 1) : out.sql[j] # column

\* C4: with several filters, the WHERE conditions appear in ascending order
\* of filter key, whatever the order of the WithFilter calls.
CexC4_ConditionsInKeyOrder ==
    FromOptions =>
        \A a, b \in 1..Len(FilterKeyOrder) :
            LET ka == FilterKeyOrder[a]
                kb == FilterKeyOrder[b]
            IN  (/\ a < b
                 /\ ka \in DOMAIN FilterMap /\ ~MalformedEntry(ka, FilterMap[ka])
                 /\ kb \in DOMAIN FilterMap /\ ~MalformedEntry(kb, FilterMap[kb]))
                => ColumnPosition(BaseOrKey(ka)) < ColumnPosition(BaseOrKey(kb))

-----------------------------------------------------------------------------
(* The shape of the statements (checked under Spec).  The expected text is  *)
(* written down from the options record and the call's arguments.           *)

Numbered(n) ==
    IF out.call.flavor = PostgreSQLFlavor THEN "$" \o ToString(n) ELSE "?"

RECURSIVE Listed(_)
Listed(ws) ==
    IF ws = <<>> THEN <<>>
    ELSE IF Len(ws) = 1 THEN ws
    ELSE <<Head(ws), ",">> \o Listed(Tail(ws))

StartsWith(head) ==
    Len(head) <= Len(out.sql) /\ SubSeq(out.sql, 1, Len(head)) = head
EndsWith(tail) ==
    /\ Len(tail) <= Len(out.sql)
    /\ SubSeq(out.sql, Len(out.sql) - Len(tail) + 1, Len(out.sql)) = tail
Between(head, tail) ==
    SubSeq(out.sql, Len(head) + 1, Len(out.sql) - Len(tail))
ClauseWords == {"SELECT", "FROM", "WHERE", "ORDER", "LIMIT", "OFFSET", "FOR",
                "SET", "VALUES"}
\* Nothing, or one WHERE clause and no other clause.
IsWhereClause(ws) ==
    \/ ws = <<>>
    \/ /\ Len(ws) > 1
       /\ ws[1] = "WHERE"
       /\ \A i \in 2..Len(ws) : ws[i] \notin ClauseWords

SelectHead == <<"SELECT">> \o Listed(out.options.Fields) \o <<"FROM", out.call.table>>
OrderTail ==
    IF out.options.OrderBy # "" THEN <<"ORDER", "BY", out.options.OrderBy>>
    ELSE <<>>
PageTail ==
    <<"LIMIT", Numbered(Len(out.args) - 1), "OFFSET", Numbered(Len(out.args))>>
LockTail ==
    IF out.options.ForUpdate
    THEN <<"FOR", "UPDATE">>
            \o (IF out.options.ForUpdateMode # ""
                THEN <<out.options.ForUpdateMode>> ELSE <<>>)
    ELSE <<>>

PositionsOf(word) == {i \in 1..Len(out.sql) : out.sql[i] = word}
\* The one place of a clause word, and the argument of the placeholder that
\* follows it.
PlaceOf(word) == CHOOSE i \in PositionsOf(word) : TRUE
ArgumentAfter(word) == out.args[Ordinal(PlaceOf(word) + 1)]

ThmC13_FindLockClause ==
    /\ out.kind = "FindQuery" =>
          /\ Len(out.sql) >= Len(SelectHead) + Len(LockTail)
          /\ StartsWith(SelectHead)
          /\ EndsWith(LockTail)
          /\ IsWhereClause(Between(SelectHead, LockTail))
          /\ (PositionsOf("FOR") # {}) <=> out.options.ForUpdate
    /\ \A h \in handles :
          h.kind = "find" /\ ~h.ForUpdate => h.ForUpdateMode = ""

WitC13_FindLockClause ==
    /\ out.kind = "FindQuery"
    /\ out.sql = <<"SELECT", "id", ",", "name", "FROM", "test_table", "WHERE",
                   "status", "IS", "NULL", "FOR", "UPDATE", "SKIP LOCKED">>
    /\ out.args = <<>>

\* The columns of the assignment mapping in ascending order, and the SET
\* list they make.
SortedColumns == SelectSeq(ColumnOrder, LAMBDA c : c \in DOMAIN AssignmentMap)
RECURSIVE SetListFrom(_, _)
SetListFrom(columns, k) ==
    IF columns = <<>> THEN <<>>
    ELSE (IF k = 1 THEN <<>> ELSE <<",">>)
            \o <<Head(columns), "=", Numbered(k)>>
            \o SetListFrom(Tail(columns), k + 1)
UpdateHead(columns) ==
    <<"UPDATE", out.call.table, "SET">> \o SetListFrom(columns, 1)

\* C14: UpdateWithOptionsQuery emits every assignment once, in ascending
\* order of column, then the WHERE clause; the arguments are the assignment
\* values in SET-list order, then the filter arguments.
ThmC14_SetListSorted ==
    (out.kind = "UpdateWithOptionsQuery" /\ DOMAIN AssignmentMap # {}) =>
        LET head == UpdateHead(SortedColumns)
            n == Len(SortedColumns)
        IN  /\ StartsWith(head)
            /\ IsWhereClause(Between(head, <<>>))
            /\ Len(out.args) >= n
            /\ \A k \in 1..n : out.args[k] = AssignmentMap[SortedColumns[k]]
            /\ Len(out.args) - n
                  = Cardinality({i \in PlaceholderPositions : i > WherePosition})

WitC14_SetListSorted ==
    /\ out.kind = "UpdateWithOptionsQuery"
    /\ out.sql = <<"UPDATE", "test_table", "SET", "age", "=", "$1", ",", "name",
                   "=", "$2", "WHERE", "status", "=", "$3">>
    /\ out.args = <<IntV(43), StrV(<<"x">>), StrV(<<"1", ",", "2">>)>>

\* C15: DeleteQuery compiles to DELETE FROM table WHERE id = placeholder
\* with the id as the one argument, nil included.
ThmC15_DeleteById ==
    out.kind = "DeleteQuery" =>
        /\ out.sql = <<"DELETE", "FROM", out.call.table, "WHERE", "id", "=",
                       Numbered(1)>>
        /\ out.args = <<out.call.id>>

WitC15_DeleteById ==
    /\ out.kind = "DeleteQuery"
    /\ out.call.id = Nil
    /\ out.sql = <<"DELETE", "FROM", "test_table", "WHERE", "id", "=", "$1">>
    /\ out.args = <<Nil>>

\* The fields of the call's record that carry the call's tag, in field order.
TaggedFields == SelectSeq(out.call.record, LAMBDA f : out.call.tag \in f.tags)
TaggedColumns == [i \in 1..Len(TaggedFields) |-> TaggedFields[i].column]
TaggedValues == [i \in 1..Len(TaggedFields) |-> TaggedFields[i].value]

\* C16: UpdateQuery sets the tagged columns in field order and appends the
\* one condition id = placeholder; the id is the last placeholder and the
\* last argument, whatever its value.
ThmC16_UpdateById ==
    out.kind = "UpdateQuery" =>
        /\ out.sql = UpdateHead(TaggedColumns)
                        \o <<"WHERE", "id", "=", Numbered(Len(TaggedColumns) + 1)>>
        /\ out.args = TaggedValues \o <<out.call.id>>

WitC16_UpdateById ==
    /\ out.kind = "UpdateQuery"
    /\ out.call.tag = "update"
    /\ out.sql = <<"UPDATE", "test_table", "SET", "name", "=", "$1", "WHERE",
                   "id", "=", "$2">>
    /\ out.args = <<StrV(<<"Ronaldinho Bruxo">>), Nil>>

\* C17: InsertQuery lists the tagged columns and as many placeholders, with
\* the tagged values as arguments in column order, and no WHERE clause.
ThmC17_InsertAligned ==
    out.kind = "InsertQuery" =>
        LET n == Len(TaggedColumns)
        IN  /\ out.sql = <<"INSERT", "INTO", out.call.table, "(">>
                            \o Listed(TaggedColumns)
                            \o <<")", "VALUES", "(">>
                            \o Listed([k \in 1..n |-> Numbered(k)])
                            \o <<")">>
            /\ out.args = TaggedValues
            /\ PositionsOf("WHERE") = {}

WitC17_InsertAligned ==
    /\ out.kind = "InsertQuery"
    /\ out.call.tag = "insert"
    /\ out.sql = <<"INSERT", "INTO", "test_table", "(", "id", ",", "name", ")",
                   "VALUES", "(", "$1", ",", "$2", ")">>
    /\ out.args = <<IntV(1), StrV(<<"Ronaldinho 10">>)>>

-----------------------------------------------------------------------------
(* The records as values: what a record compiles to, over every order the  *)
(* runtime may range its maps in.                                           *)

StatementsOf(o) ==
    CASE o.kind = "find" ->
            UNION {{FindQuery(t, o, order) :
                        order \in Orders(heap[o.Filters].m)} : t \in Tables}
      [] o.kind = "findall" ->
            UNION {{FindAllQuery(t, o, order) :
                        order \in Orders(heap[o.Filters].m)} : t \in Tables}
      [] o.kind = "update" ->
            UNION {UNION {{UpdateWithOptionsQuery(t, o, assignOrder, order) :
                              order \in Orders(heap[o.Filters].m)} :
                          assignOrder \in Orders(heap[o.Assignments].m)} :
                   t \in Tables}
      [] o.kind = "delete" ->
            UNION {{DeleteWithOptionsQuery(t, o, order) :
                        order \in Orders(heap[o.Filters].m)} : t \in Tables}

\* C18: a With* call leaves its receiver as it was: every record the caller
\* holds compiles to the same statements after the call as before it.
CexC18_ReceiverUnchanged ==
    [][\A o \in handles \cap handles' : StatementsOf(o)' = StatementsOf(o)]_vars

-----------------------------------------------------------------------------
(* Sharing (checked under SpecShare) *)

SameCall(a, b) == a.origin = b.origin
MapsOf(o) == {o.Filters, o.Assignments} \ {0}
\* The entry shows in the compiled statement: its column stands in the
\* clause and its value, unless nil, among the arguments.
ShowsIn(places, column, value) ==
    /\ \E i \in places : out.sql[i] = column
    /\ value # Nil => \E j \in 1..Len(out.args) : out.args[j] = value

\* C19: the records that descend from one constructor call hold the same
\* filter mapping and the same assignment mapping, so an entry added through
\* any of them is in all of them and in the statement compiled from any of
\* them; records of two constructor calls have no mapping in common.
ThmC19_SharedMapping ==
    /\ \A a, b \in handles :
          IF SameCall(a, b)
          THEN /\ a.Filters = b.Filters
               /\ a.Assignments = b.Assignments
               /\ heap[a.Filters].m = heap[b.Filters].m
          ELSE MapsOf(a) \cap MapsOf(b) = {}
    /\ FromOptions =>
          \A h \in handles :
              SameCall(h, out.options) =>
                  /\ \A k \in DOMAIN heap[h.Filters].m :
                        ShowsIn((WherePosition + 1)..Len(out.sql), Text(k),
                                heap[h.Filters].m[k])
                  /\ h.kind = "update" =>
                        \A c \in DOMAIN heap[h.Assignments].m :
                            ShowsIn(1..(WherePosition - 1), c,
                                    heap[h.Assignments].m[c])

WitC19_SharedMapping ==
    /\ out.kind = "FindQuery"
    /\ ~out.options.ForUpdate
    /\ out.sql = <<"SELECT", "*", "FROM", "test_table", "WHERE", "status", "=", "$1">>
    /\ \E h \in handles :
          /\ h # out.options
          /\ SameCall(h, out.options)
          /\ h.ForUpdate
          /\ heap[h.Filters].m = Put(EmptyMap, <<"status">>, StrV(<<"1", ",", "2">>))

-----------------------------------------------------------------------------
(* Flavors (checked under Spec) *)

ErasePlaceholders(sql) ==
    [i \in 1..Len(sql) |->
        IF sql[i] = "?" \/ \E n \in 1..Len(sql) : sql[i] = "$" \o ToString(n)
        THEN "?" ELSE sql[i]]
Erased(r) == [sql |-> ErasePlaceholders(r.sql), args |-> r.args]

\* What the call that produced out may return when made with flavor f.
StatementsFor(f) ==
    CASE FromOptions -> StatementsOf([out.options EXCEPT !.Flavor = f])
      [] out.kind = "InsertQuery" ->
            {InsertQuery(f, out.call.tag, out.call.table, out.call.record)}
      [] out.kind = "UpdateQuery" ->
            {UpdateQuery(f, out.call.tag, out.call.table, out.call.id,
                         out.call.record)}
      [] out.kind = "DeleteQuery" ->
            {DeleteQuery(f, out.call.table, out.call.id)}

\* C20: the flavor decides how placeholders read and nothing else: PostgreSQL
\* numbers them $1, $2, ... from the left without gaps, MySQL and SQLite
\* write ?; for the same table and inputs the three flavors return the same
\* arguments and, placeholders erased, the same text.
ThmC20_FlavorOnlyPlaceholders ==
    HasOut =>
        /\ \A i \in PlaceholderPositions :
              out.sql[i] = IF out.call.flavor = PostgreSQLFlavor
                           THEN "$" \o ToString(Ordinal(i)) ELSE "?"
        /\ Erased(out) \in {Erased(r) : r \in StatementsFor(out.call.flavor)}
        /\ \A f \in Flavors :
              {Erased(r) : r \in StatementsFor(f)}
                  = {Erased(r) : r \in StatementsFor(out.call.flavor)}

WitC20_FlavorOnlyPlaceholders ==
    /\ out.kind = "DeleteWithOptionsQuery"
    /\ out.call.flavor = PostgreSQLFlavor
    /\ out.sql = <<"DELETE", "FROM", "test_table", "WHERE", "id", "IN", "(",
                   "$1", ",", "$2", ")", "AND", "status", "=", "$3">>
    /\ Erased(out) \in {Erased(r) : r \in StatementsFor(MySQLFlavor)}

-----------------------------------------------------------------------------
(* Values and text (checked under Spec) *)

SqlWords ==
    {"SELECT", "FROM", "WHERE", "AND", "ORDER", "BY", "LIMIT", "OFFSET", "FOR",
     "UPDATE", "SET", "DELETE", "INSERT", "INTO", "VALUES", "IN", "NOT", "IS",
     "NULL", "LIKE", "=", "<>", ">", ">=", "<", "<=", "(", ")", ","}

\* The caller's names: table, fields, filter keys (whole or base field),
\* assignment columns, the record's columns, OrderBy and the locking mode.
NamesIn ==
    {out.call.table}
        \cup {out.call.record[i].column : i \in 1..Len(out.call.record)}
        \cup (IF FromOptions
              THEN {out.options.Fields[i] : i \in 1..Len(out.options.Fields)}
                     \cup {out.options.OrderBy, out.options.ForUpdateMode}
                     \cup {Text(k) : k \in DOMAIN FilterMap}
                     \cup {BaseOf(k) : k \in {x \in DOMAIN FilterMap : HasDot(x)}}
                     \cup (IF out.kind = "UpdateWithOptionsQuery"
                           THEN DOMAIN AssignmentMap ELSE {})
              ELSE {"id"})

\* A filter whose value is bound as one argument.
ScalarKey(k) ==
    ~HasDot(k) \/ SuffixOf(k) \in {"not", "gt", "gte", "lt", "lte", "like"}

\* The texts a record of out's kind compiles to over the given maps.
TextsOver(filters, assignments) ==
    LET o == out.options
        t == out.call.table
    IN  CASE out.kind = "FindQuery" ->
                {FindQueryOver(t, o, filters, order).sql :
                    order \in Orders(filters)}
          [] out.kind = "FindAllQuery" ->
                {FindAllQueryOver(t, o, filters, order).sql :
                    order \in Orders(filters)}
          [] out.kind = "UpdateWithOptionsQuery" ->
                UNION {{UpdateWithOptionsQueryOver(t, o, assignments, filters,
                                                   assignOrder, order).sql :
                            order \in Orders(filters)} :
                       assignOrder \in Orders(assignments)}
          [] out.kind = "DeleteWithOptionsQuery" ->
                {DeleteWithOptionsQueryOver(t, o, filters, order).sql :
                    order \in Orders(filters)}

\* Maps with the keys of m whose values differ from m's only under scalar
\* filters, non-nil in both.
Revalued(m) ==
    {m2 \in [DOMAIN m -> OptionFilterValues] :
        \A k \in DOMAIN m :
            m2[k] # m[k] => ScalarKey(k) /\ m[k] # Nil /\ m2[k] # Nil}
Reassigned(m) == [DOMAIN m -> OptionColumnValues]

\* C21: values never reach the SQL text.  Every word of a statement is SQL,
\* a placeholder or one of the caller's names; the text is the same for
\* every id and for every record with the same columns; and the same
\* record over maps that differ only in the values of scalar filters and
\* of assignments compiles to the same texts.
ThmC21_ValuesNotInText ==
    HasOut =>
        /\ \A i \in 1..Len(out.sql) :
              \/ out.sql[i] \in SqlWords \cup NamesIn
              \/ i \in PlaceholderPositions
        /\ out.kind = "DeleteQuery" =>
              \A id \in Ids :
                  DeleteQuery(out.call.flavor, out.call.table, id).sql = out.sql
        /\ out.kind = "UpdateQuery" =>
              \A id \in Ids, structValue \in Records :
                  UpdateQuery(out.call.flavor, out.call.tag, out.call.table,
                              id, structValue).sql = out.sql
        /\ out.kind = "InsertQuery" =>
              \A structValue \in Records :
                  InsertQuery(out.call.flavor, out.call.tag, out.call.table,
                              structValue).sql = out.sql
        /\ FromOptions =>
              LET assignments == IF out.kind = "UpdateWithOptionsQuery"
                                 THEN AssignmentMap ELSE EmptyMap
              IN  /\ out.sql \in TextsOver(FilterMap, assignments)
                  /\ \A m2 \in Revalued(FilterMap), a2 \in Reassigned(assignments) :
                        TextsOver(m2, a2) = TextsOver(FilterMap, assignments)

WitC21_ValuesNotInText ==
    /\ out.kind = "UpdateWithOptionsQuery"
    /\ out.sql = <<"UPDATE", "test_table", "SET", "name", "=", "?", "WHERE",
                   "status", "=", "?">>
    /\ out.args = <<StrV(<<"x">>), IntV(1)>>

-----------------------------------------------------------------------------
(* More properties of one parse*Filter call (checked under SpecParse) *)

\* C22: no key and no value makes a filter compiler fail: a key with a dot
\* splits into at least two segments, so the operator segment is there when
\* it is read, the builder comes back, and it compiles to a text and an
\* argument list that extend the ones before the call.
ThmC22_NeverFails ==
    AfterCall =>
        /\ bld.kind = last.before.kind
        /\ HasDot(last.key) => Len(Split(last.key, ".")) >= 2
        /\ DOMAIN After = {"sql", "args"}
        /\ SubSeq(After.sql, 1, Len(Before.sql)) = Before.sql
        /\ SubSeq(After.args, 1, Len(Before.args)) = Before.args

WitC22_NeverFails ==
    /\ AfterCall
    /\ bld.kind = "select"
    /\ bld.flavor = PostgreSQLFlavor
    /\ last.key = <<".", "in">>
    /\ last.value = StrV(<<>>)
    /\ After.sql = <<"SELECT", "*", "FROM", "test_table", "WHERE", "", "IN",
                     "(", "$1", ")">>
    /\ After.args = <<StrV(<<>>)>>

DotsOf(key) == {i \in 1..Len(key) : key[i] = "."}
SecondDot(key) ==
    CHOOSE i \in DotsOf(key) : Cardinality({j \in DotsOf(key) : j < i}) = 1
FirstTwoSegments(key) == SubSeq(key, 1, SecondDot(key) - 1)
\* The filter compiler of the builder's statement kind.
ParseOf(b, key, value) ==
    CASE b.kind = "select" -> parseSelectFilter(b, key, value)
      [] b.kind = "update" -> parseUpdateFilter(b, key, value)
      [] b.kind = "delete" -> parseDeleteFilter(b, key, value)

\* C23: a key with more than one dot is read by its first two segments
\* only: it compiles exactly like the key cut before its second dot
\* (`id.in.x` like `id.in`, `id.gt.x` like `id.gt`, `a.b.in` like `a.b`).
CexC23_LaterSegmentsIgnored ==
    AfterCall /\ Cardinality(DotsOf(last.key)) >= 2 =>
        bld = ParseOf(last.before, FirstTwoSegments(last.key), last.value)

\* The words a placeholder-numbering statement gives its placeholders,
\* counted from the first placeholder after the statement's earlier ones.
Renumbered(words, flavor, earlier) ==
    [i \in 1..Len(words) |->
        IF \E j \in 1..Len(words) : words[i] = Placeholder(flavor, earlier + j)
        THEN Placeholder(flavor,
                CHOOSE j \in 1..Len(words) :
                    words[i] = Placeholder(flavor, earlier + j))
        ELSE words[i]]

\* What the filter compiler of a statement kind adds for (key, value) to the
\* harness statement of that kind: the words appended to the text and the
\* arguments appended to the list.
PredicateOf(kind, flavor, key, value) ==
    LET b == TestBuilder(kind, flavor)
        before == Build(b)
        after == Build(ParseOf(b, key, value))
    IN  [text |-> Renumbered(SubSeq(after.sql, Len(before.sql) + 1,
                                    Len(after.sql)),
                             flavor, Len(before.args)),
         args |-> SubSeq(after.args, Len(before.args) + 1, Len(after.args)),
         kept |-> SubSeq(after.sql, 1, Len(before.sql)) = before.sql
                    /\ SubSeq(after.args, 1, Len(before.args)) = before.args]

StatementKinds == {"select", "update", "delete"}

\* C26: for the key and value of a call, the filter compilers of SELECT,
\* UPDATE and DELETE add the same thing to their statements: all three
\* nothing, or all three the same WHERE words (placeholders counted from
\* the statement's earlier arguments) with the same arguments; and that is
\* what the call made, behind WHERE or, after an earlier condition, AND.
ThmC26_SameCompiler ==
    AfterCall =>
        /\ \A j, k \in StatementKinds :
              /\ PredicateOf(j, bld.flavor, last.key, last.value).kept
              /\ PredicateOf(j, bld.flavor, last.key, last.value)
                    = PredicateOf(k, bld.flavor, last.key, last.value)
        /\ \A k \in StatementKinds :
              LET made == Renumbered(SubSeq(After.sql, Len(Before.sql) + 1,
                                            Len(After.sql)),
                                     bld.flavor, Len(Before.args))
                  text == PredicateOf(k, bld.flavor, last.key, last.value).text
              IN  /\ PredicateOf(k, bld.flavor, last.key, last.value).args
                        = NewArgs
                  /\ Len(made) = Len(text)
                  /\ made # <<>> =>
                        /\ made[1] = Connective
                        /\ Tail(made) = Tail(text)

WitC26_SameCompiler ==
    /\ AfterCall
    /\ bld.kind = "update"
    /\ bld.flavor = PostgreSQLFlavor
    /\ last.key = <<"id", ".", "notin">>
    /\ last.value = StrV(<<"1", ",", "2", ",", "3">>)
    /\ After.sql = <<"UPDATE", "test_table", "SET", "field", "=", "$1",
                     "WHERE", "id", "NOT", "IN", "(", "$2", ",", "$3", ",",
                     "$4", ")">>
    /\ PredicateOf("select", PostgreSQLFlavor, last.key, last.value)
          = [text |-> <<"WHERE", "id", "NOT", "IN", "(", "$1", ",", "$2", ",",
                        "$3", ")">>,
             args |-> <<StrV(<<"1">>), StrV(<<"2">>), StrV(<<"3">>)>>,
             kept |-> TRUE]
    /\ PredicateOf("delete", PostgreSQLFlavor, last.key, last.value)
          = PredicateOf("select", PostgreSQLFlavor, last.key, last.value)

\* The words the call appended to the statement.
AddedWords == SubSeq(After.sql, Len(Before.sql) + 1, Len(After.sql))

\* C28: with a nil value only the bare key turns to a null test.  Under
\* not, gt, gte, lt, lte and like the nil is compared like any value: one
\* predicate `base <op> <placeholder>`, nil as its one argument, no IS NULL
\* or IS NOT NULL, and the entry is not dropped.
ThmC28_NilComparedUnderSuffix ==
    AfterCall /\ last.value = Nil =>
        /\ (\E i \in 1..Len(AddedWords) : AddedWords[i] \in {"IS", "NULL"})
              <=> ~HasDot(last.key)
        /\ (HasDot(last.key)
              /\ SuffixOf(last.key) \in {"not", "gt", "gte", "lt", "lte", "like"})
              => /\ AddedWords = <<Connective, BaseOf(last.key),
                                   ComparisonOf(SuffixOf(last.key)),
                                   NewPlaceholder(1)>>
                 /\ NewArgs = <<Nil>>
                 /\ Len(After.args) = Len(Before.args) + 1

WitC28_NilComparedUnderSuffix ==
    /\ AfterCall
    /\ bld.kind = "select"
    /\ bld.flavor = PostgreSQLFlavor
    /\ last.key = <<"id", ".", "not">>
    /\ last.value = Nil
    /\ After.sql = <<"SELECT", "*", "FROM", "test_table", "WHERE", "id", "<>",
                     "$1">>
    /\ After.args = <<Nil>>

-----------------------------------------------------------------------------
(* The records along a chain of With* calls (checked under Spec) *)

\* The fields each mutator of the scalar fields names.
NamedFields(kind) ==
    IF kind = "find" THEN {{"Fields"}, {"ForUpdate", "ForUpdateMode"}}
    ELSE IF kind = "findall"
    THEN {{"Fields"}, {"Limit"}, {"Offset"}, {"OrderBy"},
          {"ForUpdate", "ForUpdateMode"}}
    ELSE {}
\* n is o but for the fields one mutator names.
MutatedFrom(o, n) ==
    \E named \in NamedFields(o.kind) :
        /\ \A f \in (DOMAIN o) \ named : n[f] = o[f]
        /\ "ForUpdate" \in named => n.ForUpdate
\* A step in which the caller receives a record it did not hold.
NewRecordStep == handles # {} /\ ~(handles' \subseteq handles)

\* C24: a call of WithFields, WithLimit, WithOffset, WithOrderBy or
\* WithForUpdate returns a record that differs from its receiver in the
\* named fields only (WithForUpdate sets the flag), every record the caller
\* held is still as it was, the maps are untouched, and all records of the
\* chain have the flavor given to the constructor.
ThmC24_WithFrame ==
    [][/\ NewRecordStep =>
            /\ handles \subseteq handles'
            /\ heap' = heap
            /\ \A n \in handles' \ handles : \E o \in handles : MutatedFrom(o, n)
       /\ \A a, b \in handles' : a.Flavor = b.Flavor /\ a.kind = b.kind]_vars

WitC24_WithFrame ==
    \E a, b \in handles :
        /\ a.kind = "findall"
        /\ a.Flavor = SQLiteFlavor
        /\ a.OrderBy = "id asc"
        /\ a.Limit = 0
        /\ b = [a EXCEPT !.Limit = 5]

-----------------------------------------------------------------------------
(* With* calls from several goroutines.  A map-writing With* method is      *)
(* three statements: copy := *f, the write into the copy's map, return      *)
(* &copy.  Nothing orders the statements of one goroutine against those of  *)
(* another.  A write that overlaps another write of the same map is a data  *)
(* race: the write may land, may be lost, or the runtime may stop the       *)
(* program.                                                                 *)

WrittenMap(r) ==
    IF r.method = "WithAssignment" THEN r.copy.Assignments ELSE r.copy.Filters

Writing(g) == running[g].pc = "writing"

Racing(g) ==
    \E h \in Goroutines \ {g} :
        Writing(h) /\ WrittenMap(running[h]) = WrittenMap(running[g])

\* copy := *f
CopyReceiver(g, o, method, field, value) ==
    /\ running[g].pc = "idle"
    /\ \/ method = "WithFilter" /\ o.kind \in {"find", "update"}
       \/ method = "WithAssignment" /\ o.kind = "update"
    /\ running' = [running EXCEPT ![g] =
            [pc |-> "copied", copy |-> o, method |-> method, field |-> field,
             value |-> value]]
    /\ UNCHANGED <<heap, handles, out, bld, last>>

\* A variant in which the write waits for the map to be free of writers.
WriteMapLocked(g) ==
    /\ running[g].pc = "copied"
    /\ \A h \in Goroutines \ {g} :
          ~(Writing(h) /\ WrittenMap(running[h]) = WrittenMap(running[g]))
    /\ running' = [running EXCEPT ![g].pc = "writing"]
    /\ UNCHANGED <<heap, handles, out, bld, last>>

\* copy.Filters[field] = value, or copy.Assignments[field] = value, begins.
WriteMap(g) ==
    /\ running[g].pc = "copied"
    /\ running' = [running EXCEPT ![g].pc = "writing"]
    /\ UNCHANGED <<heap, handles, out, bld, last>>

\* The write ends and the method returns &copy.
ReturnCopy(g, lands) ==
    /\ Writing(g)
    /\ lands \/ Racing(g)
    /\ heap' = IF lands
               THEN [heap EXCEPT ![WrittenMap(running[g])].m =
                        Put(@, running[g].field, running[g].value)]
               ELSE heap
    /\ handles' = handles \cup {running[g].copy}
    /\ out' = NoOut
    /\ running' = [running EXCEPT ![g] = Idle]
    /\ UNCHANGED <<bld, last>>

\* The runtime detects the concurrent map writes and stops the program.
Throw(g) ==
    /\ Writing(g)
    /\ Racing(g)
    /\ running' = [h \in Goroutines |-> [running[h] EXCEPT !.pc = "fatal"]]
    /\ UNCHANGED <<heap, handles, out, bld, last>>

Alive == \A g \in Goroutines : running[g].pc # "fatal"

NextRace ==
    \/ \E flavor \in ShareFlavors : Alive /\ NewFindOptionsBeside(flavor)
    \/ \E flavor \in ShareFlavors : Alive /\ NewUpdateOptionsBeside(flavor)
    \/ \E o \in handles, mode \in OptionModes :
          Alive /\ FindWithForUpdate(o, mode)
    \/ \E g \in Goroutines, o \in handles, field \in ShareFilterKeys,
          value \in OptionFilterValues :
          CopyReceiver(g, o, "WithFilter", field, value)
    \/ \E g \in Goroutines, o \in handles, field \in ShareColumns,
          value \in OptionColumnValues :
          CopyReceiver(g, o, "WithAssignment", field, value)
    \/ \E g \in Goroutines : WriteMap(g)
    \/ \E g \in Goroutines, lands \in BOOLEAN : ReturnCopy(g, lands)
    \/ \E g \in Goroutines : Throw(g)

SpecRace == Init /\ [][NextRace]_vars

\* C25: nothing keeps the map write of one With* call apart from that of
\* another: a goroutine that has copied its receiver can always go on to
\* write.  Two calls of the same method in their write on records of one
\* constructor call write one and the same map, and two calls on records of
\* different constructor calls write different maps.
ThmC25_UnsynchronizedSharedWrite ==
    /\ \A g \in Goroutines : running[g].pc = "copied" => ENABLED WriteMap(g)
    /\ \A g, h \in Goroutines :
          (g # h /\ Writing(g) /\ Writing(h)) =>
              /\ (SameCall(running[g].copy, running[h].copy)
                    /\ running[g].method = running[h].method)
                     => WrittenMap(running[g]) = WrittenMap(running[h])
              /\ ~SameCall(running[g].copy, running[h].copy)
                     => MapsOf(running[g].copy) \cap MapsOf(running[h].copy) = {}

WitC25_UnsynchronizedSharedWrite ==
    \E g, h \in Goroutines :
        /\ g # h /\ Writing(g) /\ Writing(h)
        /\ running[g].method = "WithFilter" /\ running[h].method = "WithFilter"
        /\ running[g].copy # running[h].copy
        /\ SameCall(running[g].copy, running[h].copy)
        /\ WrittenMap(running[g]) = WrittenMap(running[h])
-----------------------------------------------------------------------------
(* Statements without conditions (checked under Spec) *)

\* The filter entries of the compiled record that give a predicate.
YieldingKeys == {k \in DOMAIN FilterMap : ~MalformedEntry(k, FilterMap[k])}

\* C27: DeleteWithOptionsQuery and UpdateWithOptionsQuery write WHERE, once,
\* exactly when some filter entry gives a predicate.  With no such entry
\* (no entries, or malformed ones only) the DELETE is `DELETE FROM <table>`
\* with no arguments, and the UPDATE is its SET list with the assignment
\* values as its only arguments.
ThmC27_WhereIffPredicate ==
    out.kind \in {"DeleteWithOptionsQuery", "UpdateWithOptionsQuery"} =>
        /\ PositionsOf("WHERE") # {} <=> YieldingKeys # {}
        /\ Cardinality(PositionsOf("WHERE")) <= 1
        /\ YieldingKeys = {} =>
              IF out.kind = "DeleteWithOptionsQuery"
              THEN /\ out.sql = <<"DELETE", "FROM", out.call.table>>
                   /\ out.args = <<>>
              ELSE /\ out.sql = UpdateHead(SortedColumns)
                   /\ out.args = [k \in 1..Len(SortedColumns) |->
                                      AssignmentMap[SortedColumns[k]]]

WitC27_WhereIffPredicate ==
    /\ out.kind = "DeleteWithOptionsQuery"
    /\ DOMAIN FilterMap = {<<"id", ".", "in">>}
    /\ FilterMap[<<"id", ".", "in">>] = IntV(1)
    /\ out.sql = <<"DELETE", "FROM", "test_table">>
    /\ out.args = <<>>
-----------------------------------------------------------------------------
(* The locking flag along a chain of With* calls (checked under Spec) *)

\* Every statement compiled from the record ends in its locking clause.
LockedStatement(tableName, n, filters) ==
    \A order \in Orders(filters) :
        LET r == IF n.kind = "find"
                 THEN FindQueryOver(tableName, n, filters, order)
                 ELSE FindAllQueryOver(tableName, n, filters, order)
            tail == <<"FOR", "UPDATE">>
                       \o (IF n.ForUpdateMode # "" THEN <<n.ForUpdateMode>>
                           ELSE <<>>)
        IN  /\ Len(r.sql) >= Len(tail)
            /\ SubSeq(r.sql, Len(r.sql) - Len(tail) + 1, Len(r.sql)) = tail

\* The step is a WithForUpdate call on o that returns n.
WithForUpdateStep(o, n) ==
    \E mode \in OptionModes :
        /\ FindWithForUpdate(o, mode) \/ FindAllWithForUpdate(o, mode)
        /\ n = [o EXCEPT !.ForUpdate = TRUE, !.ForUpdateMode = mode]

\* C29: a record from a constructor has ForUpdate false and no mode.  Every
\* record a With* call returns keeps the flag of its receiver once set;
\* flag and mode differ from the receiver's only when the call is
\* WithForUpdate, and then the mode is that call's argument; and a returned
\* record with the flag set compiles to a statement ending in FOR UPDATE
\* and its mode.
ThmC29_LockFlagMonotone ==
    [][/\ handles = {} =>
             \A n \in handles' : ~n.ForUpdate /\ n.ForUpdateMode = ""
       /\ NewRecordStep =>
             \A n \in handles' \ handles : \E o \in handles :
                 /\ MutatedFrom(o, n)
                 /\ o.ForUpdate => n.ForUpdate
                 /\ (n.ForUpdate # o.ForUpdate
                        \/ n.ForUpdateMode # o.ForUpdateMode)
                       => WithForUpdateStep(o, n)
                 /\ n.ForUpdate =>
                       \A tableName \in Tables :
                           LockedStatement(tableName, n, heap[n.Filters].m)]_vars

WitC29_LockFlagMonotone ==
    \E a, b \in handles :
        /\ a.kind = "findall" /\ a.ForUpdate /\ a.ForUpdateMode = "SKIP LOCKED"
        /\ a.Offset = 0 /\ b = [a EXCEPT !.Offset = 10]
        /\ out.kind = "FindAllQuery" /\ out.options = b
        /\ EndsWith(<<"FOR", "UPDATE", "SKIP LOCKED">>)
====
